---- MODULE Spec2Model ----
(***************************************************************************)
(* Model of the lead form of src/components/sections/Contact.tsx: the      *)
(* React state of the Contact component (formData, formState), the one     *)
(* deferred continuation of handleSubmit (the setTimeout of the simulated  *)
(* network delay), and the controls the component renders, which decide    *)
(* which handler a user gesture can reach.  The other components of the    *)
(* page that are modelled follow: the Navbar with its ThemeToggle and its  *)
(* section observer, the AnimatedCounter, and the track of the Portfolio   *)
(* carousel.  The components share no state, so each has its own           *)
(* specification, in which the others stay at rest.                        *)
(***************************************************************************)
EXTENDS Integers, FiniteSets, Sequences, TLC

\* ------------------------------------------------------------------------
\* Bounds of the model

\* cap on the continuations of handleSubmit that may be pending at once
MaxPending == 3

\* cap on the counted submit gestures that the disabled button swallowed
MaxIgnored == 2

\* ------------------------------------------------------------------------
\* Types

FormStates == {"idle", "loading", "success", "error"}

FieldNames == {"name", "email", "phone", "service", "message"}

\* what the user can type in a text input or the textarea (sample)
TextValues == {"", "Ana", "Oi"}

\* the options of the select that can be chosen (the "" option is disabled)
ServiceValues == {"vistorias", "outro"}

\* what the user can type in the email input (sample): nothing, text that is
\* no address, an address
EmailValues == {"", "Ana", "ana@x.com"}

InputValues(n) ==
  IF n = "service" THEN ServiceValues
  ELSE IF n = "email" THEN EmailValues
  ELSE TextValues

EMPTY_FORM == [n \in FieldNames |-> ""]

\* history value: the field was not written since the form was last empty
NoWrite == "<unwritten>"

VARIABLES
  formData,     \* useState<FormData>: the five fields
  formState,    \* useState<FormState>
  pending,      \* number of handleSubmit calls suspended at the await
  mounted,      \* the Contact component is mounted
  formExiting,  \* the form is still in the page, playing its exit animation
  lastEvent,    \* history: the last gesture or callback, the formState it came
                \* in, and whether it ran a handler
  written,      \* history: per field the last value written since the form was empty
  ignored,      \* history: submit gestures swallowed since the last accepted submit
  \* Navbar and ThemeToggle
  theme,        \* next-themes: the theme of useTheme()
  tMounted,     \* ThemeToggle: useState mounted
  listening,    \* Navbar: the effects ran, the scroll listener is attached
  scrollY,      \* window.scrollY
  scrolled,     \* Navbar: useState scrolled
  menuOpen,     \* Navbar: useState menuOpen
  nLast,        \* history: the last Navbar event and the state it came in
  activeSection, \* Navbar: useState activeSection
  reported,     \* history: the ids of the sections that the last call of the
                \* observer's callback reported as intersecting
  \* AnimatedCounter
  target,       \* the target prop
  cMounted,     \* the counter is mounted
  visible,      \* at least half of the counter's element is in the viewport
  isInView,     \* the value of useInView(ref, { once: true, amount: 0.5 })
  count,        \* useState count
  startTimestamp, \* the variable of the effect's closure; 0 stands for null
  rafPending,   \* the requested animation frame that has not run: "none",
                \* "first" (the request whose id the effect keeps in frameId)
                \* or "later" (a request made by step, its id is dropped)
  now,          \* the timestamp of the last animation frame
  animStarts,   \* history: the times the effect started an animation
  entries,      \* history: the times the element entered the viewport
  cLast,        \* history: the last counter event
  \* Portfolio
  items,        \* the catalog the carousel renders (PORTFOLIO_ITEMS)
  track,        \* the children of the carousel's track, in document order
  trackRendered \* Portfolio has rendered

contactVars == <<formData, formState, pending, mounted, formExiting, lastEvent,
                 written, ignored>>

navVars == <<theme, tMounted, listening, scrollY, scrolled, menuOpen, nLast,
             activeSection, reported>>

counterVars == <<target, cMounted, visible, isInView, count, startTimestamp,
                 rafPending, now, animStarts, entries, cLast>>

carouselVars == <<items, track, trackRendered>>

vars == <<contactVars, navVars, counterVars, carouselVars>>

Event(op, n, v, h) ==
  [op |-> op, name |-> n, value |-> v, handled |-> h, from |-> formState]

NoEvent == [op |-> "none", name |-> "", value |-> "", handled |-> FALSE,
            from |-> "idle"]

\* ------------------------------------------------------------------------
\* What the component renders

\* The form is in the page: it is the child of AnimatePresence unless
\* formState is success, and AnimatePresence keeps the leaving form (with the
\* props of its last render) until its exit animation has ended.
FormPresent == formState # "success" \/ formExiting

\* bug variant: SuccessState rendered whatever formState is
SuccessStatePresent_Always == TRUE

\* bug variant: SuccessState rendered in error as well
SuccessStatePresent_AlsoError == formState \in {"success", "error"} /\ ~formExiting

\* SuccessState, with its "Enviar outra mensagem" button, is rendered in
\* success; mode="wait" mounts it only after the form has left.
SuccessStatePresent == formState = "success" /\ ~formExiting

\* bug variant: the button has no disabled attribute
SubmitDisabled_Never == FALSE

\* bug variant: the button is disabled in error too
SubmitDisabled_AlsoError == formState \in {"loading", "error"} \/ formExiting

\* disabled={formState === 'loading'}; a leaving form keeps the attribute of
\* its last render, which was a loading one.
SubmitDisabled == formState = "loading" \/ formExiting

\* bug variant: the gesture reaches onSubmit whenever the form is in the page
SubmitEnabled_AnyState == FormPresent

\* a submit gesture (click on the button, Enter in an input) reaches onSubmit
SubmitEnabled == FormPresent /\ ~SubmitDisabled

\* the inputs that carry the required attribute
RequiredFields == {"name", "email", "message"}

\* what type="email" accepts: the empty string or an address
ValidEmail(v) == v \in {"", "ana@x.com"}

\* the browser's constraint validation of the form: required and type=email
ConstraintsValid ==
  /\ \A n \in RequiredFields : formData[n] # ""
  /\ ValidEmail(formData["email"])

\* the form carries noValidate: the browser submits without validating
NoValidate == TRUE

\* a submit gesture on the enabled button fires the submit event
ValidationPasses == NoValidate \/ ConstraintsValid

\* ------------------------------------------------------------------------
\* The simulated call: new Promise((resolve) => setTimeout(resolve, 1800))
\* only ever resolves.
SimulatedCallThrows_Yes == TRUE

SimulatedCallThrows == FALSE

\* ------------------------------------------------------------------------
\* Handlers

\* bug variant: the previous fields are not spread into the new object
handleChange_NoSpread(n, v) == formData' = [EMPTY_FORM EXCEPT ![n] = v]

\* bug variant: the value is written to every field
handleChange_AllFields(n, v) == formData' = [m \in FieldNames |-> v]

\* bug variant: a change made while the form is loading is dropped
handleChange_NotWhileLoading(n, v) ==
  formData' = IF formState = "loading" THEN formData
                                       ELSE [formData EXCEPT ![n] = v]

\* setFormData((prev) => ({ ...prev, [e.target.name]: e.target.value }))
handleChange(n, v) == formData' = [formData EXCEPT ![n] = v]

\* bug variant: the delay is started twice
handleSubmitStart_TwoTimers ==
  /\ formState' = "loading"
  /\ pending' = pending + 2

\* bug variant: no timer is started, the promise never settles
handleSubmitStart_NoTimer ==
  /\ formState' = "loading"
  /\ pending' = pending

\* handleSubmit up to the await: setFormState('loading'), timer started
handleSubmitStart ==
  /\ formState' = "loading"
  /\ pending' = pending + 1

\* bug variant: the catch branch reports success
handleSubmitResume_CatchSucceeds(threw) == "success"

\* the state handleSubmit sets after the await: the try block runs on, or the
\* catch block runs if the awaited call threw
handleSubmitResume(threw) == IF threw THEN "error" ELSE "success"

\* the state handleSubmit sets after the await of the simulated call
handleSubmitOutcome == handleSubmitResume(SimulatedCallThrows)

\* bug variant: an effect cleanup clears the timer on unmount
unmountCleanup_ClearsTimer == pending' = 0

\* Contact has no effect and so no cleanup: unmounting leaves the timer set
unmountCleanup == pending' = pending

\* bug variant: the fields are not cleared
handleReset_KeepsData ==
  /\ formData' = formData
  /\ formState' = "idle"

\* setFormData(EMPTY_FORM); setFormState('idle')
handleReset ==
  /\ formData' = EMPTY_FORM
  /\ formState' = "idle"

\* ------------------------------------------------------------------------
\* Portfolio: the track of the carousel

\* the most items of a sampled catalog
MaxItems == 3

\* the items of the catalog, in catalog order; an item stands for its id, and
\* no two items of the catalog have the same id
PORTFOLIO_ITEMS ==
  <<"p01", "p02", "p03", "p04", "p05", "p06", "p07", "p08", "p09", "p10">>

\* the catalogs the track is rendered for: the catalog itself, and every
\* selection of at most MaxItems of its items in any order
Catalogs ==
  {PORTFOLIO_ITEMS} \cup
  {c \in UNION {[1..n -> {PORTFOLIO_ITEMS[k] : k \in DOMAIN PORTFOLIO_ITEMS}] :
                  n \in 0..MaxItems} :
     \A i, j \in DOMAIN c : c[i] = c[j] => i = j}

\* key={item.id}
originalKey(id) == id

\* bug variant: the clone gets the key of its original
cloneKey_SameAsOriginal(id) == id

\* key={`clone-${item.id}`}
cloneKey(id) == "clone-" \o id

\* a child of the track: <PortfolioCard key=... item=... isClone=... />, whose
\* root element carries aria-hidden={isClone}
PortfolioCard(key, item, isClone) ==
  [key |-> key, item |-> item, isClone |-> isClone, ariaHidden |-> isClone]

\* the children of the track: PORTFOLIO_ITEMS.map(original), then
\* PORTFOLIO_ITEMS.map(clone)
renderTrack(its) ==
  [i \in 1..Len(its) |-> PortfolioCard(originalKey(its[i]), its[i], FALSE)]
    \o [i \in 1..Len(its) |-> PortfolioCard(cloneKey(its[i]), its[i], TRUE)]

\* Portfolio with the catalog, before its render; the specifications of the
\* other components, which share no state with it, leave it there
CarouselAtRest ==
  /\ items = PORTFOLIO_ITEMS
  /\ track = << >>
  /\ trackRendered = FALSE

\* ------------------------------------------------------------------------
\* Steps

ContactInit ==
  /\ formData = EMPTY_FORM
  /\ formState = "idle"
  /\ pending = 0
  /\ mounted = TRUE
  /\ formExiting = FALSE
  /\ lastEvent = NoEvent
  /\ written = [n \in FieldNames |-> NoWrite]
  /\ ignored = 0

\* the Navbar as first rendered, on a page at its top with the default theme
NavAtRest ==
  /\ theme = "light"
  /\ tMounted = FALSE
  /\ listening = FALSE
  /\ scrollY = 0
  /\ scrolled = FALSE
  /\ menuOpen = FALSE
  /\ nLast = [op |-> "none", prev |-> "none", menuWas |-> FALSE, themeWas |-> "light"]
  /\ activeSection = "hero"
  /\ reported = {}

\* an AnimatedCounter as first rendered, below the viewport
CounterAtRest ==
  /\ target = 10
  /\ cMounted = TRUE
  /\ visible = FALSE
  /\ isInView = FALSE
  /\ count = 0
  /\ startTimestamp = 0
  /\ rafPending = "none"
  /\ now = 0
  /\ animStarts = 0
  /\ entries = 0
  /\ cLast = "none"

Init == ContactInit /\ NavAtRest /\ CounterAtRest /\ CarouselAtRest

\* the user edits one field of the form
Change(n, v) ==
  /\ mounted
  /\ FormPresent
  /\ handleChange(n, v)
  /\ written' = [written EXCEPT ![n] = v]
  /\ lastEvent' = Event("change", n, v, TRUE)
  /\ UNCHANGED <<formState, pending, mounted, formExiting, ignored, navVars, counterVars, carouselVars>>

\* the user clicks the submit button or presses Enter in an input; the event
\* reaches onSubmit={handleSubmit} unless the button is disabled
Submit ==
  /\ mounted
  /\ FormPresent
  /\ IF SubmitEnabled /\ ValidationPasses
       THEN /\ pending < MaxPending
            /\ handleSubmitStart
            /\ ignored' = 0
            /\ lastEvent' = Event("submit", "", "", TRUE)
       ELSE /\ ignored < MaxIgnored
            /\ ignored' = ignored + 1
            /\ lastEvent' = Event("submit", "", "", FALSE)
            /\ UNCHANGED <<formState, pending>>
  /\ UNCHANGED <<formData, mounted, formExiting, written, navVars, counterVars, carouselVars>>

\* the timer of the simulated delay fires and handleSubmit resumes after the
\* await; nothing cancels the timer, and React drops a state update of an
\* unmounted component
Resume(op, outcome) ==
  /\ pending > 0
  /\ pending' = pending - 1
  /\ IF mounted
       THEN /\ formState' = outcome
            /\ formExiting' = (outcome = "success" /\ FormPresent)
            /\ lastEvent' = Event(op, "", "", TRUE)
       ELSE /\ lastEvent' = Event(op, "", "", FALSE)
            /\ UNCHANGED <<formState, formExiting>>
  /\ UNCHANGED <<formData, mounted, written, ignored, navVars, counterVars, carouselVars>>

TimerFire == Resume("timer", handleSubmitOutcome)

\* the exit animation of the form (exit={{ opacity: 0 }}) ends: the form
\* leaves the page and SuccessState is mounted
ExitComplete ==
  /\ mounted
  /\ formExiting
  /\ formExiting' = FALSE
  /\ lastEvent' = Event("exitComplete", "", "", TRUE)
  /\ UNCHANGED <<formData, formState, pending, mounted, written, ignored, navVars, counterVars, carouselVars>>

\* the effects of a run of handleReset on the model's state
RunReset(op) ==
  /\ handleReset
  /\ formExiting' = FALSE
  /\ written' = [n \in FieldNames |-> NoWrite]
  /\ ignored' = 0
  /\ lastEvent' = Event(op, "", "", TRUE)
  /\ UNCHANGED <<pending, mounted, navVars, counterVars, carouselVars>>

\* the user clicks "Enviar outra mensagem" (onClick={onReset})
Reset ==
  /\ mounted
  /\ SuccessStatePresent
  /\ RunReset("reset")

\* the page is left: the component unmounts, its timer is not cleared
Unmount ==
  /\ mounted
  /\ mounted' = FALSE
  /\ unmountCleanup
  /\ lastEvent' = Event("unmount", "", "", TRUE)
  /\ UNCHANGED <<formData, formState, formExiting, written, ignored, navVars, counterVars, carouselVars>>

Next ==
  \/ \E n \in FieldNames : \E v \in InputValues(n) : Change(n, v)
  \/ Submit
  \/ TimerFire
  \/ ExitComplete
  \/ Reset
  \/ Unmount

Spec == Init /\ [][Next]_vars

\* the program with the scheduling the event loop guarantees: a timer that
\* was set fires
LiveSpec == Spec /\ WF_vars(TimerFire)

\* ------------------------------------------------------------------------
\* The handlers applied to every input: the component in any state of its
\* types, and handleReset also called where no control reaches it

FormDatas == {d \in [FieldNames -> TextValues \cup EmailValues \cup ServiceValues] :
                \A n \in FieldNames : d[n] \in InputValues(n) \cup {""}}

InitAny ==
  /\ formData \in FormDatas
  /\ formState \in FormStates
  /\ pending = IF formState = "loading" THEN 1 ELSE 0
  /\ mounted = TRUE
  /\ formExiting \in IF formState = "success" THEN BOOLEAN ELSE {FALSE}
  /\ lastEvent = NoEvent
  /\ written = [n \in FieldNames |-> NoWrite]
  /\ ignored = 0
  /\ NavAtRest
  /\ CounterAtRest
  /\ CarouselAtRest

\* handleReset called in whatever state the component is in
CallReset ==
  /\ mounted
  /\ RunReset("callReset")

\* the awaited call throws (what the integration the comment in handleSubmit
\* asks for does on a failed request): handleSubmit resumes in its catch block
AwaitThrows == Resume("throw", handleSubmitResume(TRUE))

NextAny ==
  \/ \E n \in FieldNames : \E v \in InputValues(n) : Change(n, v)
  \/ Submit
  \/ TimerFire
  \/ ExitComplete
  \/ Reset
  \/ CallReset
  \/ AwaitThrows
  \/ Unmount

HandlerSpec == InitAny /\ [][NextAny]_vars

\* ------------------------------------------------------------------------
\* One submission, followed from the call of handleSubmit until its outcome
\* is shown: the user has filled in the form and submitted it, and goes on
\* using the page while the call is in flight.

\* the FormData with which handleSubmit was called
SubmittedForm ==
  [name |-> "Ana", email |-> "ana@x.com", phone |-> "", service |-> "vistorias",
   message |-> "Oi"]

\* handleSubmit has run up to its await
RaceInit ==
  /\ formData = SubmittedForm
  /\ formState = "loading"
  /\ pending = 1
  /\ mounted = TRUE
  /\ formExiting = FALSE
  /\ lastEvent = [op |-> "submit", name |-> "", value |-> "", handled |-> TRUE,
                  from |-> "idle"]
  /\ written = [n \in FieldNames |->
                  IF SubmittedForm[n] = "" THEN NoWrite ELSE SubmittedForm[n]]
  /\ ignored = 0
  /\ NavAtRest
  /\ CounterAtRest
  /\ CarouselAtRest

\* the steps of Next up to the reset that ends the submission
RaceNext ==
  \/ \E n \in FieldNames : \E v \in InputValues(n) : Change(n, v)
  \/ Submit
  \/ TimerFire
  \/ ExitComplete
  \/ Unmount

RaceSpec == RaceInit /\ [][RaceNext]_vars

\* ------------------------------------------------------------------------
\* Navbar and ThemeToggle

\* what getTheme can find in storage: a theme the toggle wrote, or another
\* name (next-themes knows "system"); defaultTheme="light" when nothing is stored
StoredThemes == {"light", "dark", "system"}

\* the scroll offsets sampled, in px, around the threshold
ScrollPositions == {0, 60, 61, 300}

\* setScrolled(window.scrollY > 60)
ScrollThreshold == 60

\* the href values of NAV_LINKS; the CTA links use '#contato'
NavHrefs == {"#hero", "#servicos", "#portfolio", "#sobre", "#cobertura", "#contato"}

\* NAV_LINKS in its order, by href
NAV_LINKS == <<"#hero", "#servicos", "#portfolio", "#sobre", "#cobertura", "#contato">>

\* href.replace('#', ''): the href without its first '#'
sectionId(href) ==
  CASE href = "#hero" -> "hero"
    [] href = "#servicos" -> "servicos"
    [] href = "#portfolio" -> "portfolio"
    [] href = "#sobre" -> "sobre"
    [] href = "#cobertura" -> "cobertura"
    [] href = "#contato" -> "contato"

\* NAV_LINKS.map((l) => l.href.replace('#', ''))
sectionIds == [i \in DOMAIN NAV_LINKS |-> sectionId(NAV_LINKS[i])]

\* the ids of the elements of the page: the sections of HomePage and the
\* inputs of the contact form
PageIds ==
  {"hero", "servicos", "sobre", "portfolio", "cobertura", "contato"} \cup FieldNames

\* the targets of the observer, in the order of the observe() calls: the ids
\* of sectionIds for which getElementById finds an element
observed == SelectSeq(sectionIds, LAMBDA id : id \in PageIds)

\* cap on the entries of one call of the observer's callback
MaxBatch == 2

\* what the observer can pass to its callback: entries for some of its
\* targets, in the order of the targets, each intersecting or not
Batches ==
  LET Picks == UNION {[1..n -> (DOMAIN observed) \X BOOLEAN] : n \in 1..MaxBatch}
  IN {[i \in DOMAIN b |-> [id |-> observed[b[i][1]], isIntersecting |-> b[i][2]]] :
        b \in {c \in Picks : \A i \in DOMAIN c : \A j \in DOMAIN c :
                                i < j => c[i][1] < c[j][1]}}

\* bug variant: the callback takes every entry, intersecting or not
onIntersect_AnyEntry(active, entry) == entry.id

\* if (entry.isIntersecting) setActiveSection(entry.target.id)
onIntersect(active, entry) == IF entry.isIntersecting THEN entry.id ELSE active

\* entries.forEach(...): the value of activeSection after the callback
RECURSIVE observerCallback(_, _)
observerCallback(active, batch) ==
  IF batch = << >> THEN active
  ELSE observerCallback(onIntersect(active, Head(batch)), Tail(batch))

\* const isActive = activeSection === sectionId
isActive(href) == activeSection = sectionId(href)

NavEvent(op) ==
  [op |-> op, prev |-> nLast.op, menuWas |-> menuOpen, themeWas |-> theme]

\* bug variant: the toggle always asks for the dark theme
toggleTarget_AlwaysDark(t) == "dark"

\* isDark ? 'light' : 'dark', with isDark = theme === 'dark'
toggleTarget(t) == IF t = "dark" THEN "light" ELSE "dark"

\* bug variant: handleNavClick toggles the menu
navClickMenu_Toggles(open) == ~open

\* setMenuOpen(false) in handleNavClick
navClickMenu(open) == FALSE

\* setMenuOpen((v) => !v) of the hamburger button
hamburgerMenu(open) == ~open

\* onScroll's value for scrolled
onScroll(y) == y > ScrollThreshold

\* the page is loaded with a stored theme and at any scroll offset (a reload
\* or a link to an anchor restores the offset before the effects run)
NavInit ==
  /\ ContactInit
  /\ CounterAtRest
  /\ CarouselAtRest
  /\ theme \in StoredThemes
  /\ tMounted = FALSE
  /\ listening = FALSE
  /\ scrollY \in ScrollPositions
  /\ scrolled = FALSE
  /\ menuOpen = FALSE
  /\ nLast = [op |-> "none", prev |-> "none", menuWas |-> FALSE, themeWas |-> theme]
  /\ activeSection = "hero"
  /\ reported = {}

\* the effects after the first commit: ThemeToggle's setMounted(true), the
\* Navbar's addEventListener('scroll', onScroll) and its IntersectionObserver
NavEffects ==
  /\ ~listening
  /\ listening' = TRUE
  /\ tMounted' = TRUE
  /\ nLast' = NavEvent("effects")
  /\ UNCHANGED <<theme, scrollY, scrolled, menuOpen, activeSection,
                 reported, contactVars, counterVars, carouselVars>>

\* the page scrolls to another offset; the scroll event runs onScroll if the
\* listener is attached
Scroll(y) ==
  /\ y # scrollY
  /\ scrollY' = y
  /\ scrolled' = IF listening THEN onScroll(y) ELSE scrolled
  /\ nLast' = NavEvent("scroll")
  /\ UNCHANGED <<theme, tMounted, listening, menuOpen, activeSection,
                 reported, contactVars, counterVars, carouselVars>>

\* a nav link or a CTA is clicked: handleNavClick(href); the smooth scroll it
\* starts shows as later Scroll steps
NavClick(href) ==
  /\ menuOpen' = navClickMenu(menuOpen)
  /\ nLast' = NavEvent("navClick")
  /\ UNCHANGED <<theme, tMounted, listening, scrollY, scrolled, activeSection,
                 reported, contactVars, counterVars, carouselVars>>

\* the hamburger button is clicked
Hamburger ==
  /\ menuOpen' = hamburgerMenu(menuOpen)
  /\ nLast' = NavEvent("hamburger")
  /\ UNCHANGED <<theme, tMounted, listening, scrollY, scrolled, activeSection,
                 reported, contactVars, counterVars, carouselVars>>

\* the theme button, rendered once ThemeToggle is mounted, is clicked
Toggle ==
  /\ tMounted
  /\ theme' = toggleTarget(theme)
  /\ nLast' = NavEvent("toggle")
  /\ UNCHANGED <<tMounted, listening, scrollY, scrolled, menuOpen, activeSection,
                 reported, contactVars, counterVars, carouselVars>>

\* the observer, created by the effects, calls its callback with a batch of
\* entries
Observe(batch) ==
  /\ listening
  /\ activeSection' = observerCallback(activeSection, batch)
  /\ reported' = {batch[i].id : i \in {j \in DOMAIN batch : batch[j].isIntersecting}}
  /\ nLast' = NavEvent("observe")
  /\ UNCHANGED <<theme, tMounted, listening, scrollY, scrolled, menuOpen,
                 contactVars, counterVars, carouselVars>>

NavNext ==
  \/ NavEffects
  \/ \E batch \in Batches : Observe(batch)
  \/ \E y \in ScrollPositions : Scroll(y)
  \/ \E href \in NavHrefs : NavClick(href)
  \/ Hamburger
  \/ Toggle

NavSpec == NavInit /\ [][NavNext]_vars

\* ------------------------------------------------------------------------
\* AnimatedCounter

\* the duration prop (2200 ms by default), in ticks of the model's clock
Duration == 4

\* the most ticks between two animation frames
MaxStep == 2

\* cap on the counted entries of the element into the viewport
MaxEntries == 3

\* the values of STATS that StatCard passes as target
Targets == {10, 600, 9, 200}

Min(a, b) == IF a < b THEN a ELSE b

\* Math.min((timestamp - startTimestamp) / duration, 1), as elapsed ticks out
\* of Duration
linearProgress(ts, start) == Min(ts - start, Duration)

\* bug variant: the easing runs the wrong way, easedProgress = (1 - p)^3
easedCount_Inverted(e, tgt) ==
  (tgt * ((Duration - e) * (Duration - e) * (Duration - e)))
    \div (Duration * Duration * Duration)

\* Math.floor(easedProgress * target) with easedProgress = 1 - (1 - p)^3 and
\* p = e / Duration, in exact arithmetic
easedCount(e, tgt) ==
  (tgt * (Duration * Duration * Duration
          - (Duration - e) * (Duration - e) * (Duration - e)))
    \div (Duration * Duration * Duration)

\* the count after a run of step: setCount(Math.floor(...)), and then
\* setCount(target) in the last frame
countAfterStep(e, tgt) == IF e < Duration THEN easedCount(e, tgt) ELSE tgt

\* bug variant: step never asks for the next frame
requestsNextFrame_Never(e) == FALSE

\* if (linearProgress < 1) requestAnimationFrame(step)
requestsNextFrame(e) == e < Duration

\* cancelAnimationFrame(frameId): frameId is the id of the first request only
cancelFrameId(p) == IF p = "first" THEN "none" ELSE p

\* bug variant: useInView without once follows the element
useInViewNext_NotOnce(cur, vis) == vis

\* useInView with once: true keeps true once the element was in view
useInViewNext(cur, vis) == cur \/ vis

CounterInit ==
  /\ ContactInit
  /\ NavAtRest
  /\ CarouselAtRest
  /\ target \in Targets
  /\ cMounted = TRUE
  /\ visible = FALSE
  /\ isInView = FALSE
  /\ count = 0
  /\ startTimestamp = 0
  /\ rafPending = "none"
  /\ now = 0
  /\ animStarts = 0
  /\ entries = 0
  /\ cLast = "none"

\* the effect with the dependencies [isInView, target, duration] after
\* isInView went from was to is: the cleanup of the run before (a run with
\* isInView false returned none), then the new run, which starts an
\* animation if isInView is true (and then stands in for a chain of frames
\* the cleanup could not cancel)
EffectRun(was, is) ==
  IF was = is
    THEN UNCHANGED <<startTimestamp, rafPending, animStarts>>
    ELSE IF is
      THEN /\ startTimestamp' = 0
           /\ rafPending' = "first"
           /\ animStarts' = animStarts + 1
      ELSE /\ rafPending' = cancelFrameId(rafPending)
           /\ UNCHANGED <<startTimestamp, animStarts>>

\* the element scrolls into the viewport
Enter ==
  /\ cMounted
  /\ ~visible
  /\ entries < MaxEntries
  /\ visible' = TRUE
  /\ entries' = entries + 1
  /\ isInView' = useInViewNext(isInView, TRUE)
  /\ EffectRun(isInView, isInView')
  /\ cLast' = "enter"
  /\ UNCHANGED <<target, cMounted, count, now, contactVars, navVars, carouselVars>>

\* the element scrolls out of the viewport
Leave ==
  /\ cMounted
  /\ visible
  /\ visible' = FALSE
  /\ isInView' = useInViewNext(isInView, FALSE)
  /\ EffectRun(isInView, isInView')
  /\ cLast' = "leave"
  /\ UNCHANGED <<target, cMounted, count, now, entries, contactVars, navVars, carouselVars>>

\* an animation frame arrives and runs step(ts); React drops the setCount of
\* an unmounted component
Frame(ts) ==
  /\ rafPending # "none"
  /\ now' = ts
  /\ startTimestamp' = IF startTimestamp = 0 THEN ts ELSE startTimestamp
  /\ LET e == linearProgress(ts, startTimestamp')
     IN /\ count' = IF cMounted THEN countAfterStep(e, target) ELSE count
        /\ rafPending' = IF requestsNextFrame(e) THEN "later" ELSE "none"
  /\ cLast' = "frame"
  /\ UNCHANGED <<target, cMounted, visible, isInView, animStarts, entries,
                 contactVars, navVars, carouselVars>>

\* the counter unmounts: the cleanup of the effect runs if its last run
\* returned one
CounterUnmount ==
  /\ cMounted
  /\ cMounted' = FALSE
  /\ rafPending' = IF isInView THEN cancelFrameId(rafPending) ELSE rafPending
  /\ cLast' = "unmount"
  /\ UNCHANGED <<target, visible, isInView, count, startTimestamp, now,
                 animStarts, entries, contactVars, navVars, carouselVars>>

AnyFrame == \E ts \in (now + 1)..(now + MaxStep) : Frame(ts)

CounterNext ==
  \/ Enter
  \/ Leave
  \/ AnyFrame
  \/ CounterUnmount

CounterSpec == CounterInit /\ [][CounterNext]_vars

\* animation frames keep arriving while one is requested
CounterLiveSpec == CounterSpec /\ WF_vars(AnyFrame)

\* ------------------------------------------------------------------------
\* Portfolio: rendering the track

\* Portfolio is about to render, with one of the catalogs
CarouselInit ==
  /\ ContactInit
  /\ NavAtRest
  /\ CounterAtRest
  /\ items \in Catalogs
  /\ track = << >>
  /\ trackRendered = FALSE

\* Portfolio renders: the track gets its children
RenderTrack ==
  /\ ~trackRendered
  /\ track' = renderTrack(items)
  /\ trackRendered' = TRUE
  /\ UNCHANGED <<items, contactVars, navVars, counterVars>>

CarouselNext == RenderTrack

CarouselSpec == CarouselInit /\ [][CarouselNext]_vars

\* ------------------------------------------------------------------------
\* Properties

\* the edges of formState the specification allows
Edges == {<<"idle", "loading">>, <<"loading", "success">>,
          <<"loading", "error">>, <<"success", "idle">>, <<"error", "idle">>}

\* C1: a submit gesture made while formState is loading changes nothing:
\* formState stays loading, FormData and the pending timer are as before.
C1_SubmitWhileLoadingIsNoOp ==
  [][(formState = "loading" /\ lastEvent'.op = "submit")
       => (formState' = "loading" /\ formData' = formData /\ pending' = pending)]_vars

\* a submit gesture was made during loading and swallowed
C1_Witness ==
  /\ lastEvent.op = "submit" /\ ~lastEvent.handled /\ lastEvent.from = "loading"
  /\ formState = "loading" /\ formData # EMPTY_FORM

\* C2: once a submit was accepted (the form is loading), formState becomes
\* success, unless the component is unmounted first; checked under LiveSpec.
C2_LoadingLeadsToSuccess ==
  (formState = "loading" /\ mounted) ~> (formState = "success" \/ ~mounted)

\* success reached by the timer with the three required fields filled in
C2_Witness ==
  /\ formState = "success" /\ lastEvent.op = "timer" /\ lastEvent.handled
  /\ formData["name"] = "Ana" /\ formData["email"] # "" /\ formData["message"] = "Oi"

\* C3: at most one timer is pending at any time; a submit gesture that
\* directly follows an accepted one runs no handler and changes neither the
\* timer nor formState; every step into success consumes the one timer.
C3_OneTimerOneTransition ==
  [][/\ pending <= 1 /\ pending' <= 1
     /\ (lastEvent.op = "submit" /\ lastEvent.handled /\ lastEvent'.op = "submit")
          => (~lastEvent'.handled /\ pending' = pending /\ formState' = formState)
     /\ (formState # "success" /\ formState' = "success")
          => (formState = "loading" /\ pending = 1 /\ pending' = 0)]_vars

\* success reached once, after a submission during which further submit
\* gestures were made
C3_Witness ==
  /\ formState = "success" /\ lastEvent.op = "timer" /\ lastEvent.handled
  /\ ignored > 0 /\ pending = 0

\* C4: a run of handleReset, in any formState and with any FormData, leaves
\* formState idle and FormData the empty record; checked under HandlerSpec.
C4_ResetYieldsIdleEmpty ==
  [][lastEvent'.op \in {"reset", "callReset"}
       => (formState' = "idle" /\ formData' = EMPTY_FORM
           /\ \A n \in FieldNames : formData'[n] = "")]_vars

\* handleReset has run while the form was loading
C4_Witness ==
  /\ lastEvent.op = "callReset" /\ lastEvent.from = "loading"
  /\ formState = "idle" /\ pending = 1

\* C5: every field holds the last value written to it, or the empty string
\* it had if it was not written; writing the value just written again leaves
\* FormData as it is.
C5_LastWriteWins ==
  [][/\ \A n \in FieldNames :
          formData'[n] = IF written'[n] = NoWrite THEN "" ELSE written'[n]
     /\ (/\ lastEvent.op = "change" /\ lastEvent'.op = "change"
         /\ lastEvent'.name = lastEvent.name /\ lastEvent'.value = lastEvent.value)
          => formData' = formData]_vars

\* two fields written, one of them back to the empty string, one untouched
C5_Witness ==
  /\ lastEvent.op = "change" /\ lastEvent.name = "name" /\ lastEvent.value = ""
  /\ written["name"] = "" /\ written["message"] = "Oi" /\ written["phone"] = NoWrite
  /\ formData["message"] = "Oi" /\ formData["phone"] = ""

\* C6: no step that ends in success changes FormData (neither the step into
\* success nor a step taken in success).
C6_FrozenInSuccess ==
  [][formState' = "success" => formData' = formData]_vars

\* C7: every change of formState follows an edge of Edges.
C7_LinearTransitions ==
  [][formState' # formState => <<formState, formState'>> \in Edges]_vars

\* the timer has taken the form from loading to success
C7_Witness ==
  /\ lastEvent.op = "timer" /\ lastEvent.from = "loading"
  /\ formState = "success" /\ formExiting

\* C8: formState is never error.
C8_ErrorUnreachable == formState # "error"

\* handleSubmit has run to the end of its try block
C8_Witness ==
  /\ formState = "success" /\ ~formExiting /\ pending = 0
  /\ lastEvent.op = "exitComplete"

\* C9: a submit gesture can reach handleSubmit exactly in idle and error, and
\* one that is made runs the handler exactly there; checked under HandlerSpec.
C9_SubmitEnabledIffIdleOrError ==
  /\ [](mounted => (SubmitEnabled <=> formState \in {"idle", "error"}))
  /\ [][lastEvent'.op = "submit"
          => (lastEvent'.handled <=> formState \in {"idle", "error"})]_vars

\* a submit accepted in error
C9_Witness ==
  /\ lastEvent.op = "submit" /\ lastEvent.handled /\ lastEvent.from = "error"
  /\ formState = "loading"

\* C10: the reset control is used only in success; checked under HandlerSpec,
\* where the component starts in any formState.
C10_ResetOnlyInSuccess ==
  [][lastEvent'.op = "reset" => formState = "success"]_vars

\* the reset button was clicked
C10_Witness ==
  /\ lastEvent.op = "reset" /\ lastEvent.from = "success" /\ formState = "idle"

\* C11: unmounting leaves the pending timer set, and a pending timer goes
\* away only by firing, so it can fire after the component was unmounted.
C11_TimerSurvivesUnmount ==
  [][/\ (mounted /\ ~mounted') => pending' = pending
     /\ pending' < pending => lastEvent'.op = "timer"]_vars

\* the timer of a submission fired after the component was unmounted in
\* loading; its state update was issued and dropped
C11_Witness ==
  /\ ~mounted /\ formState = "loading" /\ pending = 0
  /\ lastEvent.op = "timer" /\ ~lastEvent.handled

\* C12: a step from idle to loading is taken only with name, email and
\* message non-empty.
C12_RequiredFieldsEnforced ==
  [][(formState = "idle" /\ formState' = "loading")
       => \A n \in RequiredFields : formData[n] # ""]_vars

\* C13: when the awaited call throws, formState becomes error, FormData is
\* kept, a submit gesture reaches handleSubmit again, and the call's
\* continuation is gone without a new one started; checked under HandlerSpec.
C13_FailureGivesActionableError ==
  [][(lastEvent'.op = "throw" /\ mounted)
       => /\ formState' = "error"
          /\ formData' = formData
          /\ (SubmitEnabled /\ ValidationPasses)'
          /\ pending' = pending - 1]_vars

\* the call of a submission with a filled form threw
C13_Witness ==
  /\ lastEvent.op = "throw" /\ lastEvent.handled /\ lastEvent.from = "loading"
  /\ formState = "error" /\ formData["name"] = "Ana" /\ pending = 0

\* C14: a field update is never refused and writes the named field only: the
\* other four fields, formState and the pending timer are as before; checked
\* under HandlerSpec.
C14_UpdateWritesOneField ==
  [][lastEvent'.op = "change"
       => /\ lastEvent'.handled
          /\ formData'[lastEvent'.name] = lastEvent'.value
          /\ \A n \in FieldNames \ {lastEvent'.name} : formData'[n] = formData[n]
          /\ formState' = formState
          /\ pending' = pending]_vars

\* a field written during loading, next to a field written before
C14_Witness ==
  /\ lastEvent.op = "change" /\ lastEvent.name = "message" /\ lastEvent.from = "loading"
  /\ formData["message"] = "Oi" /\ formData["name"] = "Ana"
  /\ formState = "loading" /\ pending = 1

\* C15: only the toggle writes the theme; a toggle sets light when the theme
\* is dark and dark otherwise; two toggles in a row that start from light or
\* dark give the theme back; checked under NavSpec.
C15_ToggleFlipsTheme ==
  [][/\ theme' # theme => nLast'.op = "toggle"
     /\ nLast'.op = "toggle"
          => theme' = IF theme = "dark" THEN "light" ELSE "dark"
     /\ (/\ nLast.op = "toggle" /\ nLast'.op = "toggle"
         /\ nLast.themeWas \in {"light", "dark"})
          => theme' = nLast.themeWas]_vars

\* two toggles in a row that started from dark
C15_Witness ==
  /\ nLast.op = "toggle" /\ nLast.prev = "toggle"
  /\ nLast.themeWas = "light" /\ theme = "dark"

\* C19: scrolled is true exactly when the scroll offset is above 60 px.
C19_ScrolledIffPastThreshold == scrolled <=> scrollY > 60

\* C20: a nav click leaves menuOpen false, a hamburger click inverts it, and
\* nothing else changes it; checked under NavSpec.
C20_MenuOpenWriters ==
  [][/\ nLast'.op = "navClick" => ~menuOpen'
     /\ nLast'.op = "hamburger" => menuOpen' = ~menuOpen
     /\ nLast'.op \notin {"navClick", "hamburger"} => menuOpen' = menuOpen]_vars

\* a nav link clicked with the mobile menu open
C20_Witness ==
  /\ nLast.op = "navClick" /\ nLast.menuWas /\ ~menuOpen

\* C16: once the counter is unmounted, no step callback runs.
C16_CleanupCancelsAnimation == ~(cLast = "frame" /\ ~cMounted)

\* C17: once the element is in view, count becomes target (unless the counter
\* is unmounted first), and from then on stays target; checked under
\* CounterLiveSpec.
C17_CountReachesTarget ==
  /\ (isInView /\ cMounted) ~> (count = target \/ ~cMounted)
  /\ [][(isInView /\ count = target) => count' = target]_vars

\* the last frame of an animation has set the target
C17_Witness ==
  /\ cLast = "frame" /\ cMounted /\ rafPending = "none"
  /\ count = target /\ now - startTimestamp >= Duration

\* C18: the animation starts at most once; once in view the hook stays true,
\* and an entry after the first leaves the animation and the count alone.
C18_AnimatesOnce ==
  [][/\ animStarts' <= 1
     /\ (isInView /\ cMounted) => isInView'
     /\ (cLast' = "enter" /\ entries >= 1)
          => UNCHANGED <<count, startTimestamp, rafPending, animStarts>>]_vars

\* the element came into view a second time after the animation had ended
C18_Witness ==
  /\ cLast = "enter" /\ entries = 2 /\ animStarts = 1
  /\ count = target /\ rafPending = "none"

\* C21: for a catalog of N items the rendered track has exactly 2N cards:
\* card i is item i and card N+i is item i again, for i in 1..N; the cards
\* N+1..2N are clones and aria-hidden, the cards 1..N are neither; no two of
\* the 2N keys are equal; checked under CarouselSpec.
C21_TrackDuplicatesCatalog ==
  trackRendered =>
    LET N == Len(items)
    IN /\ Len(track) = 2 * N
       /\ \A i \in 1..N :
            /\ track[i].item = items[i]
            /\ ~track[i].isClone /\ ~track[i].ariaHidden
            /\ track[N + i].item = items[i]
            /\ track[N + i].isClone /\ track[N + i].ariaHidden
       /\ \A i, j \in 1..(2 * N) : track[i].key = track[j].key => i = j

\* the track rendered for a catalog of several items that are not in the
\* order of their ids
C21_Witness ==
  /\ trackRendered
  /\ Len(items) >= 2 /\ Len(items) <= MaxItems
  /\ items[1] = "p02" /\ items[2] = "p01"
  /\ Len(track) = 2 * Len(items)

\* C22: while the component is mounted, formState is loading exactly when one
\* timer of the simulated delay is pending, and no timer is pending in idle,
\* success and error.
C22_LoadingIffOneTimer ==
  mounted =>
    /\ formState = "loading" <=> pending = 1
    /\ formState \in {"idle", "success", "error"} => pending = 0

\* a submit was accepted: the form is loading with its one timer
C22_Witness ==
  /\ mounted
  /\ formState = "loading" /\ pending = 1
  /\ lastEvent.op = "submit" /\ lastEvent.handled

\* C23: while the form is loading every one of the five inputs takes every
\* value; a change made then writes its field and leaves formState and the
\* timer alone; the step into success leaves FormData as the changes left it,
\* every field holding the last value written to it.  Checked under RaceSpec,
\* where handleSubmit was called with SubmittedForm.
C23_EditableWhileLoading ==
  /\ [](mounted /\ formState = "loading"
          => \A n \in FieldNames : \A v \in InputValues(n) : ENABLED Change(n, v))
  /\ [][formState = "loading" /\ lastEvent'.op = "change"
          => /\ formData' = [formData EXCEPT ![lastEvent'.name] = lastEvent'.value]
             /\ formState' = "loading"
             /\ pending' = pending]_vars
  /\ [][formState = "loading" /\ formState' = "success"
          => /\ formData' = formData
             /\ \A n \in FieldNames :
                  formData'[n] = IF written'[n] = NoWrite THEN "" ELSE written'[n]]_vars

\* success reached with a FormData that is not the one handleSubmit was
\* called with: the message was erased while the form was loading
C23_Witness ==
  /\ formState = "success"
  /\ lastEvent.op = "timer" /\ lastEvent.handled
  /\ formData # SubmittedForm
  /\ formData["message"] = "" /\ written["message"] = ""

\* C24: count is at least 0 and at most target in every state, it is 0 as
\* long as the element has not been in view, and no step makes it smaller
\* (the timestamps of the frames increase); checked under CounterSpec.
C24_CountBoundedMonotone ==
  /\ [](/\ 0 <= count /\ count <= target
        /\ ~isInView => count = 0)
  /\ [][count' >= count]_vars

\* in the middle of an animation: a frame has set a count between 0 and
\* target and asked for the next frame
C24_Witness ==
  /\ cLast = "frame" /\ cMounted
  /\ 0 < count /\ count < target
  /\ rafPending = "later" /\ now > startTimestamp

\* C25: activeSection is the id of one of the six sections of NAV_LINKS, and
\* hero until the observer exists, so exactly one nav link is active; it
\* changes only in a call of the observer's callback, and then to a section
\* the call reported as intersecting; a call that reports no intersecting
\* section leaves it as it is.  Checked under NavSpec.
C25_ActiveSectionIsANavSection ==
  /\ [](/\ activeSection \in {sectionId(h) : h \in NavHrefs}
        /\ Cardinality({h \in NavHrefs : isActive(h)}) = 1
        /\ ~listening => activeSection = "hero")
  /\ [][activeSection' # activeSection
          => nLast'.op = "observe" /\ activeSection' \in reported']_vars
  /\ [][nLast'.op = "observe" /\ reported' = {}
          => activeSection' = activeSection]_vars

\* the observer reported portfolio as intersecting and, in its next call,
\* only sections that do not intersect: portfolio is still the active one
C25_Witness ==
  /\ nLast.op = "observe" /\ nLast.prev = "observe"
  /\ reported = {}
  /\ activeSection = "portfolio"

====
